---- MODULE Spec2Model ----
(***************************************************************************)
(* Model of minesweeper.py: the Minesweeper board (is_mine, nearby_mines), *)
(* Sentence (known_mines, known_safes, mark_mine, mark_safe) and           *)
(* MinesweeperAI (mark_mine, mark_safe, add_knowledge, make_safe_move,     *)
(* make_random_move).                                                      *)
(*                                                                         *)
(* Two specifications:                                                     *)
(*   Spec      - a game: a fixed board, and add_knowledge called only on   *)
(*               not-yet-revealed non-mine cells with the board's own      *)
(*               nearby_mines count (the caller contract).                 *)
(*   SpecAgent - the agent's public interface called with any arguments.   *)
(*   SpecGrids - the same interface on agents constructed for small grids, *)
(*               which a few calls exhaust.                                *)
(*   SpecSentence - the methods of one Sentence, called with any cell.     *)
(***************************************************************************)
EXTENDS Integers, FiniteSets, Sequences, TLC

\* ------------------------------------------------------------------ bounds
Height == 3
Width == 4
\* largest number of mines Minesweeper.__init__ places on the board
MaxMines == 2
\* largest number of cells the game loop reveals in one behaviour of Spec
MaxReveals == 3
\* largest number of interface calls in one behaviour of SpecAgent
MaxCalls == 3
\* largest count handed to add_knowledge in SpecAgent (smallest is -1)
MaxCount == 3
\* largest number of cells of a grid in SpecGrids
MaxGridCells == 4
\* largest number of cells of the sentence SpecSentence starts from
MaxSentenceCells == 3

VARIABLES
    height,      \* MinesweeperAI.height (and Minesweeper.height)
    width,       \* MinesweeperAI.width (and Minesweeper.width)
    board,       \* Minesweeper.mines: the cells that hold a mine
    moves_made,  \* MinesweeperAI.moves_made
    mines,       \* MinesweeperAI.mines
    safes,       \* MinesweeperAI.safes
    knowledge,   \* MinesweeperAI.knowledge: a list of sentences
    last,        \* the last interface call, its arguments and its result
    ncalls       \* number of interface calls made so far

vars == <<height, width, board, moves_made, mines, safes, knowledge, last, ncalls>>

Cells == (0 .. height - 1) \X (0 .. width - 1)

NoCell == <<-1, -1>>

\* ------------------------------------------------------------- Minesweeper
\* Minesweeper.is_mine
is_mine(b, cell) == cell \in b

\* the in-bounds cells within one row and column of cell, cell excluded
Adjacent(cell) ==
    { n \in Cells : /\ n # cell
                    /\ n[1] \in (cell[1] - 1) .. (cell[1] + 1)
                    /\ n[2] \in (cell[2] - 1) .. (cell[2] + 1) }

\* Minesweeper.nearby_mines
nearby_mines(b, cell) == Cardinality({ n \in Adjacent(cell) : is_mine(b, n) })

\* ---------------------------------------------------------------- Sentence
\* Sentence.__init__
Sentence(cells, count) == [cells |-> cells, count |-> count]

\* known_mines comparing with <= where the code compares with ==
KnownMinesAtMost(s) ==
    IF Cardinality(s.cells) <= s.count /\ s.count # 0 THEN s.cells ELSE {}

\* Sentence.known_mines
known_mines(s) ==
    IF Cardinality(s.cells) = s.count /\ s.count # 0 THEN s.cells ELSE {}

\* Sentence.known_safes
known_safes(s) ==
    IF s.cells # {} /\ s.count = 0 THEN s.cells ELSE {}

\* Sentence.mark_mine without its "cell in self.cells" test
SentenceMarkMineAlways(s, cell) ==
    [cells |-> s.cells \ {cell}, count |-> s.count - 1]

\* Sentence.mark_mine
SentenceMarkMine(s, cell) ==
    IF cell \in s.cells
    THEN [cells |-> s.cells \ {cell}, count |-> s.count - 1]
    ELSE s

\* Sentence.mark_safe decrementing count as Sentence.mark_mine does
SentenceMarkSafeDecrementing(s, cell) ==
    IF cell \in s.cells
    THEN [cells |-> s.cells \ {cell}, count |-> s.count - 1]
    ELSE s

\* Sentence.mark_safe
SentenceMarkSafe(s, cell) ==
    IF cell \in s.cells
    THEN [cells |-> s.cells \ {cell}, count |-> s.count]
    ELSE s

\* ----------------------------------------------------------- MinesweeperAI
\* The agent as a value: ag.moves_made, ag.mines, ag.safes, ag.knowledge.
Agent == [moves_made |-> moves_made, mines |-> mines,
          safes |-> safes, knowledge |-> knowledge]

\* MinesweeperAI.__init__
NewAgent == [moves_made |-> {}, mines |-> {}, safes |-> {}, knowledge |-> <<>>]

\* mark_mine that also withdraws the cell from safes
MarkMineDroppingSafe(ag, cell) ==
    [ag EXCEPT !.mines = @ \cup {cell},
               !.safes = @ \ {cell},
               !.knowledge = [i \in DOMAIN @ |-> SentenceMarkMine(@[i], cell)]]

\* MinesweeperAI.mark_mine
mark_mine(ag, cell) ==
    [ag EXCEPT !.mines = @ \cup {cell},
               !.knowledge = [i \in DOMAIN @ |-> SentenceMarkMine(@[i], cell)]]

\* mark_safe that does not pass the cell on to the sentences
MarkSafeNoPropagation(ag, cell) == [ag EXCEPT !.safes = @ \cup {cell}]

\* mark_safe that passes the cell on to the sentences but forgets safes.add
MarkSafeOnlySentences(ag, cell) ==
    [ag EXCEPT !.knowledge = [i \in DOMAIN @ |-> SentenceMarkSafe(@[i], cell)]]

\* MinesweeperAI.mark_safe
mark_safe(ag, cell) ==
    [ag EXCEPT !.safes = @ \cup {cell},
               !.knowledge = [i \in DOMAIN @ |-> SentenceMarkSafe(@[i], cell)]]

\* a loop "for c in S: self.mark_mine(c)"; the marks of distinct cells
\* commute, so the iteration order of the set does not show
RECURSIVE MarkMines(_, _)
MarkMines(ag, S) ==
    IF S = {} THEN ag
    ELSE LET c == CHOOSE x \in S : TRUE
         IN  MarkMines(mark_mine(ag, c), S \ {c})

\* a loop "for c in S: self.mark_safe(c)"
RECURSIVE MarkSafes(_, _)
MarkSafes(ag, S) ==
    IF S = {} THEN ag
    ELSE LET c == CHOOSE x \in S : TRUE
         IN  MarkSafes(mark_safe(ag, c), S \ {c})

\* add_knowledge, "Identify neighbors": the cells (row + d_row, col + d_col)
\* with d_row, d_col in -1..1, d_row != 0 and d_col != 0, inside the grid
Neighbors(cell) ==
    { n \in Cells : \E d_row \in -1 .. 1, d_col \in -1 .. 1 :
                        /\ d_row # 0 /\ d_col # 0
                        /\ n = <<cell[1] + d_row, cell[2] + d_col>> }

\* add_knowledge, "Process neighboring mines": the loop runs over the k
\* neighbouring mines; each pass marks one and decrements count while it is
\* positive, and the first pass that finds count <= 0 breaks after its mark.
\* The number of cells the loop marks:
MinesLoopPasses(k, count) ==
    IF k = 0 THEN 0
    ELSE IF count >= k THEN k
    ELSE IF count >= 0 THEN count + 1
    ELSE 1

\* the loop decrementing count on every pass (no "if count > 0")
MinesLoopCountUnclamped(k, count) == count - k

\* ... and the count it leaves:
MinesLoopCount(k, count) ==
    IF count >= k THEN count - k
    ELSE IF count >= 0 THEN 0
    ELSE count

\* the sets of neighbouring mines the loop can have marked when it ends (which
\* ones depends on the iteration order of the set)
MinesLoopMarked(ag, cell, count) ==
    LET neighboring_mines == Neighbors(cell) \cap ag.mines
        p == MinesLoopPasses(Cardinality(neighboring_mines), count)
    IN  { P \in SUBSET neighboring_mines : Cardinality(P) = p }

\* the residual count after "Process neighboring mines"
ResidualCount(ag, cell, count) ==
    MinesLoopCount(Cardinality(Neighbors(cell) \cap ag.mines), count)

\* "x in self.knowledge" for a list of sentences, by Sentence.__eq__
InKnowledge(s, kn) == \E i \in DOMAIN kn : kn[i].cells = s.cells /\ kn[i].count = s.count

\* MinesweeperAI.add_knowledge; marked is the set of neighbouring mines the
\* "Process neighboring mines" loop passed over
add_knowledge(ag, cell, count0, marked) ==
    LET a1 == [ag EXCEPT !.moves_made = @ \cup {cell}]
        a2 == mark_safe(a1, cell)
        a3 == MarkMines(a2, marked)
        count == ResidualCount(a2, cell, count0)
        n1 == Neighbors(cell) \ a3.mines
        neighboring_safes == n1 \cap a3.safes
        a4 == MarkSafes(a3, neighboring_safes)
        neighbors == n1 \ a4.safes
        new_sentence == Sentence(neighbors, count)
    IN  IF Cardinality(neighbors) = count /\ count # 0
        THEN MarkMines(a4, { c \in neighbors : c \notin a4.mines })
        ELSE IF neighbors # {} /\ count = 0
        THEN MarkSafes(a4, { c \in neighbors : c \notin a4.safes })
        ELSE IF ~InKnowledge(new_sentence, a4.knowledge) /\ new_sentence.cells # {}
        THEN [a4 EXCEPT !.knowledge = Append(@, new_sentence)]
        ELSE a4

\* make_safe_move without its "not in self.moves_made" test
SafeMovesAnySafe(ag) == ag.safes

\* add_knowledge up to its case analysis: the residual neighbours (after both
\* difference_update calls) and the residual count it goes on with
Residual(ag, cell, count0, marked) ==
    LET a1 == [ag EXCEPT !.moves_made = @ \cup {cell}]
        a2 == mark_safe(a1, cell)
        a3 == MarkMines(a2, marked)
        count == ResidualCount(a2, cell, count0)
        n1 == Neighbors(cell) \ a3.mines
        neighboring_safes == n1 \cap a3.safes
        a4 == MarkSafes(a3, neighboring_safes)
        neighbors == n1 \ a4.safes
    IN  [neighbors |-> neighbors, count |-> count]

\* MinesweeperAI.make_safe_move: the cells it can return (None when empty)
SafeMoves(ag) == { c \in ag.safes : c \notin ag.moves_made }

\* make_random_move without its "not in self.mines" test
RandomMovesOverMines(ag) == { c \in Cells : c \notin ag.moves_made }

\* MinesweeperAI.make_random_move: moves_remain
RandomMoves(ag) == { c \in Cells : c \notin ag.moves_made /\ c \notin ag.mines }

\* ------------------------------------------------------------ state machine
Call(op, cell, count, ret) ==
    [op |-> op, cell |-> cell, count |-> count, ret |-> ret,
     fresh |-> (Agent = NewAgent)]

\* a call of add_knowledge, with the residual it worked with
AddKnowledgeCall(cell, count, marked) ==
    [op |-> "add_knowledge", cell |-> cell, count |-> count, ret |-> NoCell,
     fresh |-> (Agent = NewAgent),
     res_count |-> Residual(Agent, cell, count, marked).count,
     res_neighbors |-> Residual(Agent, cell, count, marked).neighbors]

SetAgent(ag) ==
    /\ moves_made' = ag.moves_made
    /\ mines' = ag.mines
    /\ safes' = ag.safes
    /\ knowledge' = ag.knowledge

\* Minesweeper.__init__: the board's mines; MinesweeperAI.__init__
Init ==
    /\ height = Height
    /\ width = Width
    /\ board \in { b \in SUBSET Cells : Cardinality(b) <= MaxMines }
    /\ moves_made = {}
    /\ mines = {}
    /\ safes = {}
    /\ knowledge = <<>>
    /\ last = [op |-> "init", cell |-> NoCell, count |-> 0, ret |-> NoCell,
               fresh |-> TRUE]
    /\ ncalls = 0

\* the game loop reveals a cell that is no mine and has not been revealed, and
\* tells the agent the board's count for it
Reveal ==
    /\ ncalls < MaxReveals
    /\ \E cell \in Cells :
        /\ ~is_mine(board, cell)
        /\ cell \notin moves_made
        /\ LET count == nearby_mines(board, cell)
           IN  \E marked \in MinesLoopMarked(mark_safe(Agent, cell), cell, count) :
                /\ SetAgent(add_knowledge(Agent, cell, count, marked))
                /\ last' = AddKnowledgeCall(cell, count, marked)
    /\ ncalls' = ncalls + 1
    /\ UNCHANGED <<height, width, board>>

Next == Reveal

Spec == Init /\ [][Next]_vars

\* --------------------------------------------- the interface, any arguments
InitAgent ==
    /\ height = Height
    /\ width = Width
    /\ board = {}
    /\ moves_made = {}
    /\ mines = {}
    /\ safes = {}
    /\ knowledge = <<>>
    /\ last = [op |-> "init", cell |-> NoCell, count |-> 0, ret |-> NoCell,
               fresh |-> TRUE]
    /\ ncalls = 0

AddKnowledge ==
    /\ ncalls < MaxCalls
    /\ \E cell \in Cells, count \in -1 .. MaxCount :
        \E marked \in MinesLoopMarked(mark_safe(Agent, cell), cell, count) :
            /\ SetAgent(add_knowledge(Agent, cell, count, marked))
            /\ last' = AddKnowledgeCall(cell, count, marked)
    /\ ncalls' = ncalls + 1
    /\ UNCHANGED <<height, width, board>>

MarkMine ==
    /\ ncalls < MaxCalls
    /\ \E cell \in Cells :
        /\ SetAgent(mark_mine(Agent, cell))
        /\ last' = Call("mark_mine", cell, 0, NoCell)
    /\ ncalls' = ncalls + 1
    /\ UNCHANGED <<height, width, board>>

MarkSafe ==
    /\ ncalls < MaxCalls
    /\ \E cell \in Cells :
        /\ SetAgent(mark_safe(Agent, cell))
        /\ last' = Call("mark_safe", cell, 0, NoCell)
    /\ ncalls' = ncalls + 1
    /\ UNCHANGED <<height, width, board>>

MakeSafeMove ==
    /\ ncalls < MaxCalls
    /\ \E ret \in (IF SafeMoves(Agent) = {} THEN {NoCell} ELSE SafeMoves(Agent)) :
        last' = Call("make_safe_move", NoCell, 0, ret)
    /\ ncalls' = ncalls + 1
    /\ UNCHANGED <<height, width, board, moves_made, mines, safes, knowledge>>

MakeRandomMove ==
    /\ ncalls < MaxCalls
    /\ \E ret \in (IF RandomMoves(Agent) = {} THEN {NoCell} ELSE RandomMoves(Agent)) :
        last' = Call("make_random_move", NoCell, 0, ret)
    /\ ncalls' = ncalls + 1
    /\ UNCHANGED <<height, width, board, moves_made, mines, safes, knowledge>>

NextAgent ==
    \/ AddKnowledge
    \/ MarkMine
    \/ MarkSafe
    \/ MakeSafeMove
    \/ MakeRandomMove

SpecAgent == InitAgent /\ [][NextAgent]_vars

\* ------------------------------------------------ the interface, small grids
\* MinesweeperAI.__init__(height, width) for the grids of at most MaxGridCells
\* cells
InitGrids ==
    /\ height \in 1 .. Height
    /\ width \in 1 .. Width
    /\ height * width <= MaxGridCells
    /\ board = {}
    /\ moves_made = {}
    /\ mines = {}
    /\ safes = {}
    /\ knowledge = <<>>
    /\ last = [op |-> "init", cell |-> NoCell, count |-> 0, ret |-> NoCell,
               fresh |-> TRUE]
    /\ ncalls = 0

SpecGrids == InitGrids /\ [][NextAgent]_vars

\* ------------------------------------------------------------ one Sentence
\* the sentence the calls act on
TheSentence == knowledge[1]

\* a call of a Sentence method: the sentence before it and what it returned
SentenceCall(op, cell, result) ==
    [op |-> op, cell |-> cell, pre |-> TheSentence, result |-> result]

\* Sentence.__init__(cells, count) for the cell sets of at most
\* MaxSentenceCells cells and the counts -1 .. MaxCount
InitSentence ==
    /\ height = Height
    /\ width = Width
    /\ board = {}
    /\ moves_made = {}
    /\ mines = {}
    /\ safes = {}
    /\ \E cells \in SUBSET ((0 .. Height - 1) \X (0 .. Width - 1)),
          count \in -1 .. MaxCount :
            /\ Cardinality(cells) <= MaxSentenceCells
            /\ knowledge = <<Sentence(cells, count)>>
            /\ last = [op |-> "init", cell |-> NoCell,
                       pre |-> Sentence(cells, count), result |-> {}]
    /\ ncalls = 0

KnownMines ==
    /\ ncalls < MaxCalls
    /\ last' = SentenceCall("known_mines", NoCell, known_mines(TheSentence))
    /\ ncalls' = ncalls + 1
    /\ UNCHANGED <<height, width, board, moves_made, mines, safes, knowledge>>

KnownSafes ==
    /\ ncalls < MaxCalls
    /\ last' = SentenceCall("known_safes", NoCell, known_safes(TheSentence))
    /\ ncalls' = ncalls + 1
    /\ UNCHANGED <<height, width, board, moves_made, mines, safes, knowledge>>

SentenceMarkMineCall ==
    /\ ncalls < MaxCalls
    /\ \E cell \in Cells :
        /\ knowledge' = <<SentenceMarkMine(TheSentence, cell)>>
        /\ last' = SentenceCall("mark_mine", cell, {})
    /\ ncalls' = ncalls + 1
    /\ UNCHANGED <<height, width, board, moves_made, mines, safes>>

SentenceMarkSafeCall ==
    /\ ncalls < MaxCalls
    /\ \E cell \in Cells :
        /\ knowledge' = <<SentenceMarkSafe(TheSentence, cell)>>
        /\ last' = SentenceCall("mark_safe", cell, {})
    /\ ncalls' = ncalls + 1
    /\ UNCHANGED <<height, width, board, moves_made, mines, safes>>

NextSentence ==
    \/ KnownMines
    \/ KnownSafes
    \/ SentenceMarkMineCall
    \/ SentenceMarkSafeCall

SpecSentence == InitSentence /\ [][NextSentence]_vars

\* ------------------------------------------------------------------ claims
\* the last interface call was add_knowledge, and it has returned
AfterAddKnowledge == last.op = "add_knowledge"

\* the last interface call was add_knowledge on a fresh agent
FreshAddKnowledge == AfterAddKnowledge /\ last.fresh

\* C1: under truthful observations every cell of the agent's mines set is a
\* mine of the board, in every reachable state.
C1_MinesAreMines == \A c \in mines : is_mine(board, c)

\* C2: under truthful observations no cell of the agent's safes set is a mine
\* of the board, so no cell make_safe_move can return is a mine.
C2_SafesAreSafe ==
    /\ \A c \in safes : ~is_mine(board, c)
    /\ \A c \in SafeMoves(Agent) : ~is_mine(board, c)

\* C3: under truthful observations safes and mines are disjoint in every
\* reachable state.
C3_SafesMinesDisjoint == safes \cap mines = {}

\* C4: under truthful observations every sentence of knowledge has
\* 0 <= count <= |cells|.
C4_CountWithinCells ==
    \A i \in DOMAIN knowledge :
        /\ 0 <= knowledge[i].count
        /\ knowledge[i].count <= Cardinality(knowledge[i].cells)

\* C5: on a fresh agent add_knowledge(cell, 0) puts every in-bounds cell
\* adjacent to cell (horizontally, vertically or diagonally) into safes and
\* leaves knowledge empty.
C5_ZeroCountAllAdjacentSafe ==
    (FreshAddKnowledge /\ last.count = 0)
        => (Adjacent(last.cell) \subseteq safes /\ knowledge = <<>>)

\* C6: on a fresh agent add_knowledge(cell, count) with count non-zero and
\* equal to the number of in-bounds neighbours of cell marks every one of them
\* as a mine and appends no sentence; add_knowledge((0,0), 3) puts (0,1),
\* (1,0) and (1,1) into mines.
C6_FullCountAllAdjacentMines ==
    (FreshAddKnowledge /\ last.count # 0
        /\ last.count = Cardinality(Adjacent(last.cell)))
        => (Adjacent(last.cell) \subseteq mines /\ knowledge = <<>>)

\* the agent has acted on sentence s: it is in knowledge, or it is trivial and
\* its conclusion is in mines or in safes
ActedOn(s) ==
    \/ InKnowledge(s, knowledge)
    \/ s.count = Cardinality(s.cells) /\ s.cells \subseteq mines
    \/ s.count = 0 /\ s.cells \subseteq safes

\* C7: after add_knowledge returns, for any two sentences a, b of knowledge
\* with a.cells a proper subset of b.cells, the sentence
\* (b.cells - a.cells, b.count - a.count) has been derived and acted on; when
\* the difference is one cell with count 1, that cell is in mines.
C7_SubsetResolution ==
    AfterAddKnowledge =>
        \A i, j \in DOMAIN knowledge :
            (knowledge[i].cells \subseteq knowledge[j].cells
                /\ knowledge[i].cells # knowledge[j].cells)
            => ActedOn(Sentence(knowledge[j].cells \ knowledge[i].cells,
                                knowledge[j].count - knowledge[i].count))

\* C8: after add_knowledge returns, no sentence of knowledge is trivially
\* resolvable: none has count = |cells| > 0 and none has count = 0 with a
\* non-empty cell set.
C8_NoTrivialSentence ==
    AfterAddKnowledge =>
        \A i \in DOMAIN knowledge :
            known_mines(knowledge[i]) = {} /\ known_safes(knowledge[i]) = {}

\* C9: after add_knowledge returns, knowledge holds no sentence whose cell set
\* is empty.
C9_NoEmptySentence ==
    AfterAddKnowledge => \A i \in DOMAIN knowledge : knowledge[i].cells # {}

\* C10: knowledge never holds two value-equal sentences at distinct positions,
\* whatever sequence of add_knowledge, mark_mine and mark_safe calls was made.
C10_NoDuplicateSentences ==
    \A i, j \in DOMAIN knowledge :
        i # j => ~(knowledge[i].cells = knowledge[j].cells
                   /\ knowledge[i].count = knowledge[j].count)

\* the step is a call of op
IsCall(op) == ncalls' = ncalls + 1 /\ last'.op = op

\* C11: make_safe_move returns a cell of safes - moves_made whenever that set
\* is non-empty and none exactly when it is empty; it never returns a cell of
\* moves_made, and it leaves moves_made, safes, mines and knowledge unchanged.
C11_MakeSafeMove ==
    [][IsCall("make_safe_move") =>
        /\ (safes \ moves_made # {} => last'.ret \in safes \ moves_made)
        /\ (last'.ret = NoCell <=> safes \ moves_made = {})
        /\ last'.ret \notin moves_made
        /\ UNCHANGED <<moves_made, safes, mines, knowledge>>]_vars

\* make_safe_move has returned a safe cell while other safe cells were already
\* moves made
C11_Witness ==
    /\ last.op = "make_safe_move"
    /\ last.ret \in safes \ moves_made
    /\ moves_made # {}

\* every cell of the grid is in moves_made or in mines
GridExhausted == \A c \in Cells : c \in moves_made \/ c \in mines

\* C12: make_random_move returns none exactly when every cell of the grid is
\* in moves_made or in mines; otherwise it returns an in-bounds cell that is in
\* neither, and it changes no agent state.
C12_MakeRandomMove ==
    [][IsCall("make_random_move") =>
        /\ (last'.ret = NoCell <=> GridExhausted)
        /\ (~GridExhausted =>
                /\ last'.ret \in (0 .. height - 1) \X (0 .. width - 1)
                /\ last'.ret \notin moves_made
                /\ last'.ret \notin mines)
        /\ UNCHANGED <<moves_made, safes, mines, knowledge>>]_vars

\* make_random_move has returned none on a grid whose cells are all moves made
\* or known mines, some of each
C12_Witness ==
    /\ last.op = "make_random_move"
    /\ last.ret = NoCell
    /\ moves_made # {}
    /\ mines # {}

\* C13: moves_made, safes and mines only grow: across any step each of the
\* three sets is a superset of what it was.
C13_SetsGrow ==
    [][/\ moves_made \subseteq moves_made'
       /\ safes \subseteq safes'
       /\ mines \subseteq mines']_vars

\* a call has marked as a mine a cell that was already in safes
C13_Witness ==
    /\ last.op \in {"mark_mine", "add_knowledge"}
    /\ safes \cap mines # {}
    /\ moves_made # {}

\* C14: an add_knowledge call that violates the caller contract (the cell is
\* already in moves_made, or count lies outside 0 .. number of in-bounds
\* neighbours) preserves disjointness: if safes and mines were disjoint before
\* the call, they are disjoint after it.
C14_ViolatingCallKeepsDisjoint ==
    [][(/\ IsCall("add_knowledge")
        /\ \/ last'.cell \in moves_made
           \/ last'.count \notin 0 .. Cardinality(Adjacent(last'.cell))
        /\ safes \cap mines = {})
       => safes' \cap mines' = {}]_vars

\* C15: known_mines() is the sentence's cells when count = |cells| > 0 and
\* empty otherwise; known_safes() is the cells when count = 0 and cells is
\* non-empty, and empty otherwise; the two are never both non-empty.
C15_KnownMinesKnownSafes ==
    LET s == TheSentence
        n == Cardinality(s.cells)
    IN  /\ last.op = "known_mines" =>
            last.result = (IF s.count = n /\ n > 0 THEN s.cells ELSE {})
        /\ last.op = "known_safes" =>
            last.result = (IF s.count = 0 /\ n > 0 THEN s.cells ELSE {})
        /\ ~(known_mines(s) # {} /\ known_safes(s) # {})

\* known_mines() has returned the cells of a sentence whose count is its
\* number of cells
C15_Witness ==
    /\ last.op = "known_mines"
    /\ last.result # {}
    /\ last.result = TheSentence.cells

\* C16: Sentence.mark_mine(c) and Sentence.mark_safe(c) leave cells and count
\* unchanged when c is not in cells; when c is in cells, mark_mine removes c
\* and decrements count by exactly 1, and mark_safe removes c and leaves count
\* unchanged.
C16_SentenceMarks ==
    LET s == last.pre
        t == TheSentence
        c == last.cell
    IN  /\ (last.op \in {"mark_mine", "mark_safe"} /\ c \notin s.cells) =>
            (t.cells = s.cells /\ t.count = s.count)
        /\ (last.op = "mark_mine" /\ c \in s.cells) =>
            (t.cells = s.cells \ {c} /\ t.count = s.count - 1)
        /\ (last.op = "mark_safe" /\ c \in s.cells) =>
            (t.cells = s.cells \ {c} /\ t.count = s.count)

\* Sentence.mark_safe has removed a cell from a sentence with a positive count
C16_Witness ==
    /\ last.op = "mark_safe"
    /\ last.cell \in last.pre.cells
    /\ last.pre.count > 0

\* C17: from any agent state, mark_mine(c) called twice in succession leaves
\* the same mines, safes, moves_made and knowledge as mark_mine(c) called once.
C17_MarkMineIdempotent ==
    \A c \in Cells : mark_mine(mark_mine(Agent, c), c) = mark_mine(Agent, c)

\* after a mark_mine call, a sentence of knowledge still holds a cell whose
\* marking changes that sentence
C17_Witness ==
    /\ last.op = "mark_mine"
    /\ \E i \in DOMAIN knowledge : \E c \in knowledge[i].cells :
            mark_mine(Agent, c).knowledge[i] # knowledge[i]

\* the sentence add_knowledge appended in this step, if it appended one
AppendedIs(s) ==
    Len(knowledge') = Len(knowledge) + 1 => knowledge'[Len(knowledge')] = s

C19_Propagation ==
    \A i \in DOMAIN knowledge : knowledge[i].cells \cap (safes \cup mines) = {}

\* mark_safe has been called on a cell of the neighbour set a sentence of
\* knowledge was built from, and the sentence holds the rest of that set
C19_Witness ==
    /\ last.op = "mark_safe"
    /\ \E i \in DOMAIN knowledge : \E c \in Cells :
            /\ last.cell \in Neighbors(c)
            /\ knowledge[i].cells = Neighbors(c) \ {last.cell}

\* C20: moves_made is a subset of safes in every reachable state.
C20_MovesAreSafes == moves_made \subseteq safes

\* a move query has been answered after add_knowledge recorded a move
C20_Witness ==
    /\ last.op \in {"make_safe_move", "make_random_move"}
    /\ moves_made # {}

====
